---- MODULE Spec2Model ----
(***************************************************************************)
(* Model of the multi-step task orchestration core of browser-agent and    *)
(* of its error recovery handler:                                          *)
(*   src/agent/multi_step/dependency_graph.py   DependencyGraph            *)
(*   src/agent/multi_step/task_executor.py      TaskExecutor               *)
(*   src/agent/multi_step/multi_step_manager.py MultiStepTaskManager       *)
(*   src/agent/error_recovery.py                ErrorRecoveryHandler       *)
(*                                                                         *)
(* One run of MultiStepTaskManager.execute_tasks is a state machine: the   *)
(* graph is built task by task, checked for cycles, and then the while     *)
(* loop dispatches the ready frontier with asyncio.gather, whose members   *)
(* start and finish in any order, and folds the batch's results.           *)
(***************************************************************************)
EXTENDS Integers, Sequences, FiniteSets, TLC

\* ------------------------------------------------------------------ bounds
\* Longest task list a caller submits.
MaxTasks == 2
\* Counters that the code lets grow without limit are cut off here: the
\* value MaxCount stands for "MaxCount or more".
MaxCount == 3

\* ------------------------------------------------------------ input domains
TaskIds == {"A", "B", "C"}

\* enums.py TaskPriority: the numeric values the code sorts and compares by.
CRITICAL == 3
HIGH == 2
NORMAL == 1
TaskPriority == {CRITICAL, HIGH, NORMAL}

\* enums.py TaskType.
TaskType == {"navigate", "fill_form", "click_element", "extract_data",
             "wait_for_condition", "conditional_branch", "loop_task",
             "composite_task"}

\* enums.py DependencyType.
DependencyType == {"sequential", "parallel", "conditional", "wait_for"}

\* --------------------------------------------------------------- utilities
Range(s) == {s[i] : i \in 1..Len(s)}

Min(a, b) == IF a < b THEN a ELSE b

\* list.index(x): position of the first occurrence of x in s.
Index(s, x) == CHOOSE i \in 1..Len(s) : s[i] = x /\ \A j \in 1..(i-1) : s[j] # x

\* ------------------------------------------------------- DependencyGraph
\* A DependencyGraph instance.  Python dicts keep the order of first
\* insertion, and get_ready_tasks, detect_cycles and get_execution_order
\* iterate self.tasks in that order: keys is that order, tasks the mapping.
EmptyGraph ==
    [keys |-> <<>>, tasks |-> <<>>, graph |-> <<>>, reverse_graph |-> <<>>]

\* d[k] = v of a Python dict held as a TLA+ function.
DictSet(d, k, v) == [x \in DOMAIN d \cup {k} |-> IF x = k THEN v ELSE d[x]]

\* add_task without the lookup of line 24: an upstream id that is not
\* registered is passed over.
RECURSIVE add_deps_unchecked(_, _, _)
add_deps_unchecked(g, task, i) ==
    IF i > Len(task.dependencies) THEN [g |-> g, raised |-> FALSE, missing |-> ""]
    ELSE LET dep == task.dependencies[i] IN
         IF dep.task_id \notin DOMAIN g.tasks
         THEN add_deps_unchecked(g, task, i + 1)
         ELSE add_deps_unchecked(
                [g EXCEPT !.graph[dep.task_id] = Append(@, task.id),
                          !.reverse_graph[task.id] = Append(@, dep.task_id)],
                task, i + 1)

\* One pass of "for dep in task.dependencies" from position i on.  The graph
\* keeps the edges appended before a missing upstream id raises.
RECURSIVE add_deps(_, _, _)
add_deps(g, task, i) ==
    IF i > Len(task.dependencies) THEN [g |-> g, raised |-> FALSE, missing |-> ""]
    ELSE LET dep == task.dependencies[i] IN
         IF dep.task_id \notin DOMAIN g.tasks
         THEN [g |-> g, raised |-> TRUE, missing |-> dep.task_id]
         ELSE add_deps(
                [g EXCEPT !.graph[dep.task_id] = Append(@, task.id),
                          !.reverse_graph[task.id] = Append(@, dep.task_id)],
                task, i + 1)

\* DependencyGraph.add_task: the node is registered (and its two adjacency
\* lists reset) before its dependencies are looked up.
add_task(g, task) ==
    LET g1 == [keys |-> IF task.id \in DOMAIN g.tasks THEN g.keys
                        ELSE Append(g.keys, task.id),
               tasks |-> DictSet(g.tasks, task.id, task),
               graph |-> DictSet(g.graph, task.id, <<>>),
               reverse_graph |-> DictSet(g.reverse_graph, task.id, <<>>)]
    IN  add_deps(g1, task, 1)

\* self.graph.get(node, []) and self.reverse_graph.get(task_id, []).
DictGet(d, k) == IF k \in DOMAIN d THEN d[k] ELSE <<>>

\* An unstable variant of the sort: x goes in front of its equals.
RECURSIVE InsertByPriorityUnstable(_, _)
InsertByPriorityUnstable(sorted, x) ==
    IF sorted = <<>> THEN <<x>>
    ELSE IF Head(sorted).priority > x.priority
         THEN <<Head(sorted)>> \o InsertByPriorityUnstable(Tail(sorted), x)
         ELSE <<x>> \o sorted

\* list.sort(key=priority.value, reverse=True) is stable: x goes behind every
\* element whose priority is at least its own.
RECURSIVE InsertByPriority(_, _)
InsertByPriority(sorted, x) ==
    IF sorted = <<>> THEN <<x>>
    ELSE IF Head(sorted).priority >= x.priority
         THEN <<Head(sorted)>> \o InsertByPriority(Tail(sorted), x)
         ELSE <<x>> \o sorted

RECURSIVE SortByPriority(_)
SortByPriority(s) ==
    IF s = <<>> THEN <<>>
    ELSE InsertByPriority(SortByPriority(SubSeq(s, 1, Len(s) - 1)), s[Len(s)])

\* The test with the adjacency lists confused: self.graph (the downstream
\* ids) read in place of self.reverse_graph.
IsReadyDownstream(g, task_id, completed) ==
    /\ task_id \notin completed
    /\ \A dep \in Range(DictGet(g.graph, task_id)) : dep \in completed

\* The test waiting only for the upstream ids whose declared relation is not
\* "parallel".
IsReadySkippingParallel(g, task_id, completed) ==
    /\ task_id \notin completed
    /\ \A k \in 1..Len(g.tasks[task_id].dependencies) :
          LET dep == g.tasks[task_id].dependencies[k] IN
          dep.dep_type = "parallel" \/ dep.task_id \in completed

\* The test of get_ready_tasks for one registered id.
IsReady(g, task_id, completed) ==
    /\ task_id \notin completed
    /\ \A dep \in Range(DictGet(g.reverse_graph, task_id)) : dep \in completed

\* DependencyGraph.get_ready_tasks.
RECURSIVE ready_from(_, _, _)
ready_from(g, completed, i) ==
    IF i > Len(g.keys) THEN <<>>
    ELSE (IF IsReady(g, g.keys[i], completed) THEN <<g.tasks[g.keys[i]]>> ELSE <<>>)
         \o ready_from(g, completed, i + 1)

get_ready_tasks(g, completed) == SortByPriority(ready_from(g, completed, 1))

\* DependencyGraph.detect_cycles.  st carries the closure's visited set and
\* cycles list; rec_stack and path are those of the current dfs frame (a
\* callee gets path.copy() and removes itself from rec_stack on return).
RECURSIVE dfs(_, _, _, _, _), dfs_neighbors(_, _, _, _, _, _)
dfs(g, node, path, rec_stack, st) ==
    dfs_neighbors(g, node, 1, Append(path, node), rec_stack \cup {node},
                  [st EXCEPT !.visited = @ \cup {node}])

\* The neighbour loop recording a cycle only for an edge from the node to
\* itself: rec_stack is not consulted.
RECURSIVE dfs_neighbors_self_only(_, _, _, _, _, _)
dfs_neighbors_self_only(g, node, i, path, rec_stack, st) ==
    LET nbrs == DictGet(g.graph, node) IN
    IF i > Len(nbrs) THEN st
    ELSE LET neighbor == nbrs[i] IN
         IF neighbor \notin st.visited
         THEN dfs_neighbors_self_only(g, node, i + 1, path, rec_stack,
                                      dfs(g, neighbor, path, rec_stack, st))
         ELSE IF neighbor = node
         THEN dfs_neighbors_self_only(g, node, i + 1, path, rec_stack,
                [st EXCEPT !.cycles = Append(@, <<node, node>>)])
         ELSE dfs_neighbors_self_only(g, node, i + 1, path, rec_stack, st)

dfs_neighbors(g, node, i, path, rec_stack, st) ==
    LET nbrs == DictGet(g.graph, node) IN
    IF i > Len(nbrs) THEN st
    ELSE LET neighbor == nbrs[i] IN
         IF neighbor \notin st.visited
         THEN dfs_neighbors(g, node, i + 1, path, rec_stack,
                            dfs(g, neighbor, path, rec_stack, st))
         ELSE IF neighbor \in rec_stack
         THEN dfs_neighbors(g, node, i + 1, path, rec_stack,
                [st EXCEPT !.cycles =
                    Append(@, SubSeq(path, Index(path, neighbor), Len(path))
                              \o <<neighbor>>)])
         ELSE dfs_neighbors(g, node, i + 1, path, rec_stack, st)

RECURSIVE detect_from(_, _, _)
detect_from(g, i, st) ==
    IF i > Len(g.keys) THEN st
    ELSE detect_from(g, i + 1,
                     IF g.keys[i] \notin st.visited
                     THEN dfs(g, g.keys[i], <<>>, {}, st) ELSE st)

\* detect_cycles missing the edges from a node to itself.
detect_cycles_no_self_loop(g) ==
    SelectSeq(detect_from(g, 1, [visited |-> {}, cycles |-> <<>>]).cycles,
              LAMBDA cycle : Len(cycle) > 2)

detect_cycles(g) == detect_from(g, 1, [visited |-> {}, cycles |-> <<>>]).cycles

\* list[::-1].
Reverse(s) == [i \in 1..Len(s) |-> s[Len(s) + 1 - i]]

\* The dfs closure of get_execution_order (lines 82-87); st carries visited
\* and order.
RECURSIVE order_dfs(_, _, _), order_neighbors(_, _, _, _)
order_dfs(g, node, st) ==
    LET st1 == order_neighbors(g, node, 1, [st EXCEPT !.visited = @ \cup {node}])
    IN  [st1 EXCEPT !.order = Append(@, node)]

order_neighbors(g, node, i, st) ==
    LET nbrs == DictGet(g.graph, node) IN
    IF i > Len(nbrs) THEN st
    ELSE order_neighbors(g, node, i + 1,
                         IF nbrs[i] \notin st.visited
                         THEN order_dfs(g, nbrs[i], st) ELSE st)

\* Lines 89-91.
RECURSIVE order_from(_, _, _)
order_from(g, i, st) ==
    IF i > Len(g.keys) THEN st
    ELSE order_from(g, i + 1,
                    IF g.keys[i] \notin st.visited
                    THEN order_dfs(g, g.keys[i], st) ELSE st)

\* get_execution_order returning the postorder as it stands.
get_execution_order_postorder(g) ==
    IF detect_cycles(g) # <<>>
    THEN [raised |-> TRUE, value |-> <<>>]
    ELSE [raised |-> FALSE,
          value |-> order_from(g, 1, [visited |-> {}, order |-> <<>>]).order]

\* DependencyGraph.get_execution_order: raised tells whether the ValueError
\* of line 77 leaves the call, value is the list returned otherwise.
get_execution_order(g) ==
    IF detect_cycles(g) # <<>>
    THEN [raised |-> TRUE, value |-> <<>>]
    ELSE [raised |-> FALSE,
          value |-> Reverse(order_from(g, 1, [visited |-> {}, order |-> <<>>]).order)]

\* ----------------------------------------------------------- TaskExecutor
\* The branches of _execute_task that call the action collaborator.
Dispatchable == {"navigate", "fill_form", "click_element", "extract_data",
                 "wait_for_condition"}

\* str() of a TaskType member, as the f-string of the last branch prints it.
EnumStr(type) ==
    CASE type = "navigate" -> "TaskType.NAVIGATE"
      [] type = "fill_form" -> "TaskType.FILL_FORM"
      [] type = "click_element" -> "TaskType.CLICK_ELEMENT"
      [] type = "extract_data" -> "TaskType.EXTRACT_DATA"
      [] type = "wait_for_condition" -> "TaskType.WAIT_FOR_CONDITION"
      [] type = "conditional_branch" -> "TaskType.CONDITIONAL_BRANCH"
      [] type = "loop_task" -> "TaskType.LOOP_TASK"
      [] type = "composite_task" -> "TaskType.COMPOSITE_TASK"

\* What one call of the browser_agent collaborator does: it returns, or it
\* raises an Exception whose str() is message.
Returns == [raises |-> FALSE, message |-> ""]
Raises(m) == [raises |-> TRUE, message |-> m]
ErrorMessages == {"Timeout 30000ms exceeded", "Element not found"}
CollaboratorOutcomes == {Returns} \cup {Raises(m) : m \in ErrorMessages}

\* The key of the payload dict each branch returns.
Payload(type) ==
    CASE type = "navigate" -> "navigated_to"
      [] type = "fill_form" -> "filled"
      [] type = "click_element" -> "clicked"
      [] type = "extract_data" -> "extracted"
      [] type = "wait_for_condition" -> "condition_met"

\* _execute_task without its last branch: a type that matches no branch
\* falls through and the coroutine returns None.
execute_task_no_else(task, outcome) ==
    IF task.type \in Dispatchable
    THEN IF outcome.raises
         THEN [raised |-> TRUE, value |-> outcome.message]
         ELSE [raised |-> FALSE, value |-> Payload(task.type)]
    ELSE [raised |-> FALSE, value |-> "None"]

\* TaskExecutor._execute_task: the payload it returns or the exception that
\* leaves it.  outcome is read only by the branches that await the
\* collaborator.
execute_task(task, outcome) ==
    IF task.type \in Dispatchable
    THEN IF outcome.raises
         THEN [raised |-> TRUE, value |-> outcome.message]
         ELSE [raised |-> FALSE, value |-> Payload(task.type)]
    ELSE [raised |-> TRUE, value |-> "Unknown task type: " \o EnumStr(task.type)]

\* TaskExecutor.execute without its except clause: the exception leaves.
execute_uncaught(task, outcome) ==
    LET r == execute_task(task, outcome) IN
    IF r.raised
    THEN [raised |-> TRUE,
          value |-> [task_id |-> task.id, status |-> "failed", success |-> FALSE,
                     result |-> "", error |-> r.value]]
    ELSE [raised |-> FALSE,
          value |-> [task_id |-> task.id, status |-> "success", success |-> TRUE,
                     result |-> r.value, error |-> ""]]

\* TaskExecutor.execute: try/except Exception around _execute_task.  raised
\* tells whether an exception leaves the call, value is the TaskResult.  The
\* collaborator's failures are Exceptions; cancellation of the coroutine is
\* not modelled.
execute(task, outcome) ==
    LET r == execute_task(task, outcome) IN
    IF r.raised
    THEN [raised |-> FALSE,
          value |-> [task_id |-> task.id, status |-> "failed", success |-> FALSE,
                     result |-> "", error |-> r.value]]
    ELSE [raised |-> FALSE,
          value |-> [task_id |-> task.id, status |-> "success", success |-> TRUE,
                     result |-> r.value, error |-> ""]]

\* ------------------------------------------------------- error_recovery.py
\* Largest max_retries a handler is configured with.
MaxRetries == 4
\* Calls of handle_error made on one handler.
MaxCalls == 2

\* ErrorType and RecoveryStrategy, by value.
ErrorType == {"element_not_found", "timeout", "navigation_failed", "invalid_action",
              "api_error", "browser_error", "unknown"}
RecoveryStrategy == {"retry_same", "scroll_and_retry", "wait_and_retry",
                     "navigate_back", "skip_action", "abort_task", "human"}

\* The exception classes _classify_error tests with isinstance, and
\* Exception for an error of none of them.  asyncio.TimeoutError is
\* "TimeoutError".
ErrorClasses == {"ElementNotFoundError", "TimeoutError", "NavigationError",
                 "APIError", "BrowserError", "Exception"}

\* str(error) of the errors handled.
Messages == {"", "Element #email not found", "Timeout 30000ms exceeded",
             "Navigation timeout", "Failed to navigate", "API request failed",
             "Network unreachable", "Browser operation failed",
             "Chromium crashed", "Rapid clicks rejected", "Something broke"}
Errors == [cls : ErrorClasses, message : Messages]

\* str.lower() of one character and of a string.
LowerChar(c) ==
    CASE c = "A" -> "a" [] c = "B" -> "b" [] c = "C" -> "c" [] c = "D" -> "d"
      [] c = "E" -> "e" [] c = "F" -> "f" [] c = "G" -> "g" [] c = "H" -> "h"
      [] c = "I" -> "i" [] c = "J" -> "j" [] c = "K" -> "k" [] c = "L" -> "l"
      [] c = "M" -> "m" [] c = "N" -> "n" [] c = "O" -> "o" [] c = "P" -> "p"
      [] c = "Q" -> "q" [] c = "R" -> "r" [] c = "S" -> "s" [] c = "T" -> "t"
      [] c = "U" -> "u" [] c = "V" -> "v" [] c = "W" -> "w" [] c = "X" -> "x"
      [] c = "Y" -> "y" [] c = "Z" -> "z" [] OTHER -> c

RECURSIVE Lower(_)
Lower(str) ==
    IF Len(str) = 0 THEN ""
    ELSE LowerChar(SubSeq(str, 1, 1)) \o Lower(SubSeq(str, 2, Len(str)))

\* sub in str.
Contains(str, sub) ==
    \E i \in 1..(Len(str) - Len(sub) + 1) : SubSeq(str, i, i + Len(sub) - 1) = sub

\* ErrorRecoveryHandler._classify_error: the if/elif chain in its order.
classify_error(error) ==
    LET error_str == Lower(error.message) IN
    IF error.cls = "ElementNotFoundError" THEN "element_not_found"
    ELSE IF error.cls = "TimeoutError" THEN "timeout"
    ELSE IF Contains(error_str, "timeout") THEN "timeout"
    ELSE IF error.cls = "NavigationError" THEN "navigation_failed"
    ELSE IF Contains(error_str, "navigation") \/ Contains(error_str, "navigate")
         THEN "navigation_failed"
    ELSE IF error.cls = "APIError" THEN "api_error"
    ELSE IF Contains(error_str, "api") \/ Contains(error_str, "network")
         THEN "api_error"
    ELSE IF error.cls = "BrowserError" THEN "browser_error"
    ELSE IF Contains(error_str, "browser") \/ Contains(error_str, "chromium")
         THEN "browser_error"
    ELSE "unknown"

\* ErrorContext(retry_count=n), the other fields at their defaults;
\* traceback, action, state_snapshot and timestamp are left out.
ErrorContext(n) ==
    [error_type |-> "unknown", message |-> "", retry_count |-> n,
     recovery_strategy |-> "None"]

\* _find_recovery_strategy giving up on a timeout after one wait.
find_recovery_strategy_one_wait(h, error_type, context) ==
    IF context.retry_count >= h.max_retries THEN "abort_task"
    ELSE IF error_type = "element_not_found"
    THEN IF context.retry_count = 0 THEN "scroll_and_retry"
         ELSE IF context.retry_count = 1 THEN "wait_and_retry"
         ELSE "skip_action"
    ELSE IF error_type = "timeout"
    THEN IF context.retry_count < 1 THEN "wait_and_retry" ELSE "skip_action"
    ELSE IF error_type = "api_error" THEN "wait_and_retry"
    ELSE IF error_type = "navigation_failed" THEN "navigate_back"
    ELSE IF error_type = "browser_error" THEN "retry_same"
    ELSE IF error_type = "invalid_action" THEN "skip_action"
    ELSE "retry_same"

\* _find_recovery_strategy without the test of lines 401-402.
find_recovery_strategy_no_max(h, error_type, context) ==
    IF error_type = "element_not_found"
    THEN IF context.retry_count = 0 THEN "scroll_and_retry"
         ELSE IF context.retry_count = 1 THEN "wait_and_retry"
         ELSE "skip_action"
    ELSE IF error_type = "timeout"
    THEN IF context.retry_count < 2 THEN "wait_and_retry" ELSE "skip_action"
    ELSE IF error_type = "api_error" THEN "wait_and_retry"
    ELSE IF error_type = "navigation_failed" THEN "navigate_back"
    ELSE IF error_type = "browser_error" THEN "retry_same"
    ELSE IF error_type = "invalid_action" THEN "skip_action"
    ELSE "retry_same"

\* ErrorRecoveryHandler._find_recovery_strategy; h is the handler.
find_recovery_strategy(h, error_type, context) ==
    IF context.retry_count >= h.max_retries THEN "abort_task"
    ELSE IF error_type = "element_not_found"
    THEN IF context.retry_count = 0 THEN "scroll_and_retry"
         ELSE IF context.retry_count = 1 THEN "wait_and_retry"
         ELSE "skip_action"
    ELSE IF error_type = "timeout"
    THEN IF context.retry_count < 2 THEN "wait_and_retry" ELSE "skip_action"
    ELSE IF error_type = "api_error" THEN "wait_and_retry"
    ELSE IF error_type = "navigation_failed" THEN "navigate_back"
    ELSE IF error_type = "browser_error" THEN "retry_same"
    ELSE IF error_type = "invalid_action" THEN "skip_action"
    ELSE "retry_same"

\* ErrorType.name, the key of errors_by_type.
ErrorTypeName(error_type) ==
    CASE error_type = "element_not_found" -> "ELEMENT_NOT_FOUND"
      [] error_type = "timeout" -> "TIMEOUT"
      [] error_type = "navigation_failed" -> "NAVIGATION_FAILED"
      [] error_type = "invalid_action" -> "INVALID_ACTION"
      [] error_type = "api_error" -> "API_ERROR"
      [] error_type = "browser_error" -> "BROWSER_ERROR"
      [] error_type = "unknown" -> "UNKNOWN"

\* ErrorMetrics(); total_recovery_time_ms is a wall-clock sum and is left out.
NewErrorMetrics ==
    [total_errors |-> 0, errors_by_type |-> <<>>, recovery_attempts |-> 0,
     recovery_success_count |-> 0, fallback_count |-> 0, failed_recoveries |-> 0]

\* ErrorMetrics.record_error.
record_error(m, error_type, strategy) ==
    LET type_name == ErrorTypeName(error_type)
        current_count == IF type_name \in DOMAIN m.errors_by_type
                         THEN m.errors_by_type[type_name] ELSE 0
    IN  [m EXCEPT !.total_errors = @ + 1,
                  !.errors_by_type = DictSet(@, type_name, current_count + 1),
                  !.recovery_attempts = IF strategy # "abort_task" THEN @ + 1 ELSE @]

\* ErrorMetrics.record_recovery_success and record_recovery_failure.
record_recovery_success(m) == [m EXCEPT !.recovery_success_count = @ + 1]
\* record_recovery_failure that records nothing.
record_recovery_failure_dropped(m) == m
record_recovery_failure(m) == [m EXCEPT !.failed_recoveries = @ + 1]

\* ErrorMetrics.recovery_success_rate, as the fraction the code divides; 1.0
\* when no attempt was recorded.
recovery_success_rate(m) ==
    IF m.recovery_attempts = 0
    THEN [num |-> 1, den |-> 1]
    ELSE [num |-> m.recovery_success_count, den |-> m.recovery_attempts]

\* ---- RetryStrategy.  Delays are held in milliseconds, so that the default
\* initial_delay of 0.1 s is the integer 100; exponential_base is a power of
\* two.
RetryStrategy(initial_delay, max_delay, exponential_base, jitter) ==
    [initial_delay |-> initial_delay, max_delay |-> max_delay,
     exponential_base |-> exponential_base, jitter |-> jitter]

\* RetryStrategy() with its defaults.
DefaultRetryStrategy == RetryStrategy(100, 30000, 2, TRUE)

\* The binary logarithm of the bases the model uses.
Log2(b) == CASE b = 1 -> 0 [] b = 2 -> 1 [] b = 4 -> 2

\* A double holds powers of two up to 2.0 ** 1023; exponential_base **
\* retry_count raises OverflowError from 2.0 ** 1024 on.
FloatMaxExp == 1024

\* Powers of two from this one on are above every initial_delay * max_delay of
\* the model, and are held as this one.
SaturationExp == 20

\* exponential_base ** retry_count of line 204: it raises OverflowError when
\* the power is out of the range of a double.
float_pow(base, n) ==
    IF Log2(base) * n >= FloatMaxExp
    THEN [raised |-> TRUE, value |-> 0]
    ELSE [raised |-> FALSE,
          value |-> IF Log2(base) * n >= SaturationExp
                    THEN 2 ^ SaturationExp ELSE base ^ n]

Max(a, b) == IF a >= b THEN a ELSE b

\* RetryStrategy.get_wait_time(retry_count).  u is where random.uniform falls
\* in [-jitter_amount, jitter_amount]: -1 the lower end, 0 the middle, 1 the
\* upper end.  The result tells whether an exception left the call and the
\* value returned otherwise.
get_wait_time(s, retry_count, u) ==
    LET power == float_pow(s.exponential_base, retry_count) IN
    IF power.raised
    THEN [raised |-> TRUE, exc |-> "OverflowError", value |-> 0]
    ELSE LET wait_time == Min(s.initial_delay * power.value, s.max_delay)
             jitter_amount == (wait_time * 2) \div 10
             jittered == IF s.jitter THEN wait_time + u * jitter_amount
                         ELSE wait_time
         IN  [raised |-> FALSE, exc |-> "", value |-> Max(0, jittered)]

\* RecoveryAction(strategy, can_recover, retry_count, reason).
RecoveryAction(strategy, can_recover, retry_count, reason) ==
    [strategy |-> strategy, can_recover |-> can_recover,
     retry_count |-> retry_count, reason |-> reason]

\* What the awaited call of the browser collaborator does: it returns, it
\* raises an Exception whose str() is message, or it does not end within
\* self.timeout and asyncio.wait_for raises TimeoutError.
BrowserReturns == [kind |-> "returns", message |-> ""]
BrowserRaises(m) == [kind |-> "raises", message |-> m]
BrowserTimesOut == [kind |-> "timeout", message |-> ""]
BrowserOutcomes == {BrowserReturns, BrowserTimesOut, BrowserRaises(""),
                    BrowserRaises("Target page closed")}

\* The strategies whose branch of _execute_recovery awaits the browser.
BrowserCall(strategy) ==
    CASE strategy = "scroll_and_retry" -> "scroll"
      [] strategy = "navigate_back" -> "go_back"
      [] OTHER -> ""

\* ErrorRecoveryHandler._execute_recovery: the side effects it has and the
\* exception that leaves it, if any.  outcome is read only when the branch
\* calls the browser; the sleeps return.  The wait of wait_and_retry is
\* get_wait_time(context.retry_count), which returns for the retry counts a
\* handler lets through (below max_retries); how long the sleep lasts leaves
\* no trace in the state.
execute_recovery(h, strategy, context, outcome) ==
    IF strategy \in {"retry_same", "wait_and_retry"}
    THEN [raised |-> FALSE, message |-> "", effects |-> <<"sleep">>]
    ELSE IF strategy \in {"scroll_and_retry", "navigate_back"}
    THEN IF ~h.browser
         THEN [raised |-> FALSE, message |-> "", effects |-> <<"sleep">>]
         ELSE IF outcome.kind = "returns"
         THEN [raised |-> FALSE, message |-> "",
               effects |-> <<BrowserCall(strategy), "sleep">>]
         ELSE IF outcome.kind = "timeout"
         THEN [raised |-> TRUE, message |-> "Recovery timeout",
               effects |-> <<BrowserCall(strategy)>>]
         ELSE [raised |-> TRUE, message |-> outcome.message,
               effects |-> <<BrowserCall(strategy)>>]
    ELSE [raised |-> FALSE, message |-> "", effects |-> <<>>]

\* A successful recovery that hands the retry count back as it came.
next_retry_count_same(context) == context.retry_count
\* The retry count of the action of a successful recovery (line 337).
next_retry_count(context) == context.retry_count + 1

\* Step 5 of handle_error without its except clause: the exception of
\* _execute_recovery leaves handle_error.
recover_uncaught(h, strategy, context, outcome) ==
    LET r == execute_recovery(h, strategy, context, outcome) IN
    [raised |-> r.raised, failed |-> r.raised, effects |-> r.effects,
     reason |-> IF r.raised THEN r.message ELSE ""]

\* Step 5 of handle_error (lines 311-323): try/except Exception around
\* _execute_recovery.  raised tells whether an exception leaves handle_error,
\* failed whether the except clause ran, reason is the reason it gives.
recover(h, strategy, context, outcome) ==
    LET r == execute_recovery(h, strategy, context, outcome) IN
    [raised |-> FALSE, failed |-> r.raised, effects |-> r.effects,
     reason |-> IF r.raised THEN "Recovery execution failed: " \o r.message ELSE ""]

\* ---------------------------------------------------- MultiStepTaskManager
VARIABLES
    pc,         \* where execute_tasks stands
    tasks,      \* the tasks argument, as far as the build loop has read it
    dg,         \* the local DependencyGraph
    completed,  \* the local set completed
    failed,     \* the local set failed
    results,    \* self.results
    metrics,    \* self.metrics
    batch,      \* tasks_to_run of the current iteration
    slots,      \* the gathered coroutines, one per member of batch
    error,      \* the exception that ended the call, if any
    call,       \* a call of a DependencyGraph method on dg and what it gave
    handler,    \* an ErrorRecoveryHandler: its configuration and its metrics
    recovery    \* the call made on the handler and how far it has come

vars == <<pc, tasks, dg, completed, failed, results, metrics, batch, slots, error,
          call, handler, recovery>>

\* The variables of a run of execute_tasks and those of the recovery handler.
managerVars == <<pc, tasks, dg, completed, failed, results, metrics, batch, slots,
                 error, call>>
recoveryVars == <<handler, recovery>>

\* ErrorRecoveryHandler(browser, max_retries): browser tells whether a
\* browser was given.
ErrorRecoveryHandler(browser, max_retries) ==
    [browser |-> browser, max_retries |-> max_retries, metrics |-> NewErrorMetrics,
     retry_strategy |-> DefaultRetryStrategy]

\* ErrorRecoveryHandler() with its defaults.
DefaultMaxRetries == 3
DefaultHandler == ErrorRecoveryHandler(FALSE, DefaultMaxRetries)

NoWaitTime == [raised |-> FALSE, exc |-> "", value |-> 0]
NoAction == RecoveryAction("None", FALSE, 0, "")
NoRecovery ==
    [pc |-> "idle", calls |-> 0, op |-> "", error |-> [cls |-> "", message |-> ""],
     context |-> ErrorContext(0), effects |-> <<>>, outcome |-> BrowserReturns,
     ret |-> NoAction, wait_time |-> NoWaitTime]

NoCall == [op |-> "", arg |-> {}, ret |-> <<>>]
NoError == [exc |-> "", message |-> "", detail |-> <<>>]
NoResult == [task_id |-> "", status |-> "pending", success |-> FALSE,
             result |-> "", error |-> ""]

\* TaskMetrics() of models.py; success_rate is held as the fraction the code
\* divides.  The breakdowns by type, priority and status and the timings are
\* left out: nothing in the run reads them.
NewMetrics ==
    [total_tasks |-> 0, completed_tasks |-> 0, failed_tasks |-> 0,
     critical_failures |-> 0, success_rate |-> [num |-> 0, den |-> 1]]

\* MultiStepTaskManager.__init__ followed by the entry of execute_tasks.
Init ==
    /\ pc = "build"
    /\ tasks = <<>>
    /\ dg = EmptyGraph
    /\ completed = {}
    /\ failed = {}
    /\ results = <<>>
    /\ metrics = NewMetrics
    /\ batch = <<>>
    /\ slots = <<>>
    /\ error = NoError
    /\ call = NoCall
    /\ handler = DefaultHandler
    /\ recovery = NoRecovery

\* The dependency lists a caller declares: each subset of the ids, in
\* alphabetical order.
IdOrder == <<"A", "B", "C">>
DepList(S, kind) ==
    [i \in 1..Cardinality(S) |->
        [task_id |-> SelectSeq(IdOrder, LAMBDA x : x \in S)[i], dep_type |-> kind]]
DepLists == {DepList(S, "sequential") : S \in SUBSET TaskIds}

RunTypes == {"navigate", "loop_task"}
RunOutcomes == {Returns, Raises("Timeout 30000ms exceeded")}
RunTasks == [id : TaskIds, type : RunTypes, priority : TaskPriority,
             dependencies : DepLists]

\* One iteration of "for task in tasks: graph.add_task(task)" (lines 34-35).
\* The list is read one element per iteration and nothing before the loop
\* looks at it, so the element is drawn when the loop reaches it.
AddTask(task) ==
    /\ pc = "build"
    /\ Len(tasks) < MaxTasks
    /\ tasks' = Append(tasks, task)
    /\ LET r == add_task(dg, task) IN
       /\ dg' = r.g
       /\ pc' = IF r.raised THEN "missing_dependency_error" ELSE "build"
       /\ error' = IF r.raised
                   THEN [exc |-> "ValueError", message |-> "Dependency task not found",
                         detail |-> <<r.missing>>]
                   ELSE error
    /\ UNCHANGED <<completed, failed, results, metrics, batch, slots, call,
                   handler, recovery>>

\* The list is exhausted: lines 38-44.
CheckCycles ==
    /\ pc = "build"
    /\ LET cycles == detect_cycles(dg) IN
       IF cycles # <<>>
       THEN /\ pc' = "cycle_error"
            /\ error' = [exc |-> "ValueError",
                         message |-> "Cyclic dependencies detected",
                         detail |-> cycles]
            /\ UNCHANGED <<completed, failed>>
       ELSE /\ pc' = "loop"
            /\ error' = error
            /\ completed' = {}
            /\ failed' = {}
    /\ UNCHANGED <<tasks, dg, results, metrics, batch, slots, call, handler, recovery>>

\* A while condition that never fails.
UnfinishedAlways == TRUE

\* The while condition of line 46.
Unfinished == Cardinality(completed) + Cardinality(failed) < Len(tasks)

\* The pending list without its filter: every id of the task list.
PendingAll == [i \in 1..Len(tasks) |-> tasks[i].id]

\* Lines 52-55.
Pending == SelectSeq([i \in 1..Len(tasks) |-> tasks[i].id],
                     LAMBDA id : id \notin completed /\ id \notin failed)

\* Lines 46-56 with an empty ready list.
Deadlock ==
    /\ pc = "loop"
    /\ Unfinished
    /\ get_ready_tasks(dg, completed) = <<>>
    /\ pc' = "deadlock_error"
    /\ error' = [exc |-> "RuntimeError", message |-> "Task deadlock",
                 detail |-> Pending]
    /\ UNCHANGED <<tasks, dg, completed, failed, results, metrics, batch, slots,
                   call, handler, recovery>>

\* Lines 46-63 up to the await: asyncio.gather wraps every coroutine of the
\* ready list in a task of the event loop.
Dispatch ==
    /\ pc = "loop"
    /\ Unfinished
    /\ LET ready == get_ready_tasks(dg, completed) IN
       /\ ready # <<>>
       /\ batch' = ready
       /\ slots' = [i \in 1..Len(ready) |-> [state |-> "scheduled", result |-> NoResult]]
    /\ pc' = "gather"
    /\ UNCHANGED <<tasks, dg, completed, failed, results, metrics, error, call,
                   handler, recovery>>

\* Member i of the gather leaves execute with r.  With
\* return_exceptions=False an exception that leaves a member is raised at
\* once from the await of line 60 and ends execute_tasks.
Resolve(i, r) ==
    IF r.raised
    THEN /\ pc' = "executor_error"
         /\ error' = [exc |-> "Exception", message |-> r.value.error, detail |-> <<>>]
         /\ slots' = [slots EXCEPT ![i] = [state |-> "raised", result |-> NoResult]]
    ELSE /\ pc' = pc
         /\ error' = error
         /\ slots' = [slots EXCEPT ![i] = [state |-> "done", result |-> r.value]]

\* The event loop runs member i up to its first suspension: execute enters
\* _execute_task, which awaits the collaborator, or raises at once for a
\* type without a branch.
Start(i) ==
    /\ pc = "gather"
    /\ i \in 1..Len(batch)
    /\ slots[i].state = "scheduled"
    /\ IF batch[i].type \in Dispatchable
       THEN /\ slots' = [slots EXCEPT ![i] = [state |-> "awaiting", result |-> NoResult]]
            /\ UNCHANGED <<pc, error>>
       ELSE Resolve(i, execute(batch[i], Returns))
    /\ UNCHANGED <<tasks, dg, completed, failed, results, metrics, batch, call,
                   handler, recovery>>

\* The collaborator call of member i ends and execute returns.
Finish(i, outcome) ==
    /\ pc = "gather"
    /\ i \in 1..Len(batch)
    /\ slots[i].state = "awaiting"
    /\ Resolve(i, execute(batch[i], outcome))
    /\ UNCHANGED <<tasks, dg, completed, failed, results, metrics, batch, call,
                   handler, recovery>>

\* Lines 66-74 from member i on; st holds results, completed, failed and the
\* critical-failure counter.
RECURSIVE process_results(_, _, _, _)
process_results(ts, rs, i, st) ==
    IF i > Len(ts) THEN st
    ELSE LET task == ts[i]
             result == rs[i]
             st1 == [st EXCEPT !.results = DictSet(@, task.id, result)]
         IN  process_results(ts, rs, i + 1,
               IF result.success
               THEN [st1 EXCEPT !.completed = @ \cup {task.id}]
               ELSE [st1 EXCEPT !.failed = @ \cup {task.id},
                                !.critical_failures =
                                    IF task.priority = 3
                                    THEN Min(@ + 1, MaxCount) ELSE @])

\* A fold that does not wait for the whole batch: it takes the members that
\* are done as soon as one is.
FoldFirstCompleted ==
    /\ pc = "gather"
    /\ \E i \in 1..Len(batch) : slots[i].state = "done"
    /\ LET done == {i \in 1..Len(batch) : slots[i].state = "done"}
           ts == SelectSeq(batch, LAMBDA t :
                     \E i \in done : batch[i] = t)
           rs == [k \in 1..Len(ts) |->
                     slots[CHOOSE i \in done : batch[i] = ts[k]].result]
           st == process_results(ts, rs, 1,
                    [results |-> results, completed |-> completed, failed |-> failed,
                     critical_failures |-> metrics.critical_failures])
       IN  /\ results' = st.results
           /\ completed' = st.completed
           /\ failed' = st.failed
           /\ metrics' = [metrics EXCEPT !.critical_failures = st.critical_failures]
    /\ pc' = "loop"
    /\ batch' = <<>>
    /\ slots' = <<>>
    /\ UNCHANGED <<tasks, dg, error, call, handler, recovery>>

\* gather returns once every member is done: lines 66-74.
Fold ==
    /\ pc = "gather"
    /\ \A i \in 1..Len(batch) : slots[i].state = "done"
    /\ LET st == process_results(batch, [i \in 1..Len(batch) |-> slots[i].result], 1,
                    [results |-> results, completed |-> completed, failed |-> failed,
                     critical_failures |-> metrics.critical_failures])
       IN  /\ results' = st.results
           /\ completed' = st.completed
           /\ failed' = st.failed
           /\ metrics' = [metrics EXCEPT !.critical_failures = st.critical_failures]
    /\ pc' = "loop"
    /\ batch' = <<>>
    /\ slots' = <<>>
    /\ UNCHANGED <<tasks, dg, error, call, handler, recovery>>

\* _update_metrics counting every result as a failure: the filter of lines
\* 90-93 left out.
update_metrics_unfiltered(m, ts, res) ==
    LET total == Len(ts)
        done == Cardinality({id \in DOMAIN res : res[id].success})
        bad == Cardinality(DOMAIN res)
    IN  [m EXCEPT !.total_tasks = total,
                  !.completed_tasks = done,
                  !.failed_tasks = bad,
                  !.success_rate = IF total > 0 THEN [num |-> done, den |-> total]
                                   ELSE @]

\* MultiStepTaskManager._update_metrics.
update_metrics(m, ts, res) ==
    LET total == Len(ts)
        done == Cardinality({id \in DOMAIN res : res[id].success})
        bad == Cardinality({id \in DOMAIN res : ~res[id].success})
    IN  [m EXCEPT !.total_tasks = total,
                  !.completed_tasks = done,
                  !.failed_tasks = bad,
                  !.success_rate = IF total > 0 THEN [num |-> done, den |-> total]
                                   ELSE @]

\* The while condition fails: lines 76-80.
Return ==
    /\ pc = "loop"
    /\ ~Unfinished
    /\ metrics' = update_metrics(metrics, tasks, results)
    /\ pc' = "returned"
    /\ UNCHANGED <<tasks, dg, completed, failed, results, batch, slots, error,
                   call, handler, recovery>>

Next ==
    \/ \E task \in RunTasks : AddTask(task)
    \/ CheckCycles
    \/ Deadlock
    \/ Dispatch
    \/ \E i \in 1..MaxTasks : Start(i)
    \/ \E i \in 1..MaxTasks, outcome \in RunOutcomes : Finish(i, outcome)
    \/ Fold
    \/ Return

Spec == Init /\ [][Next]_vars

\* The event loop keeps running whatever can run and every executor call
\* returns: a step that stays possible is taken.
FairSpec == Spec /\ WF_vars(Next)

\* ------------------------------------- several runs on one manager instance
\* execute_tasks is called again on the same MultiStepTaskManager once the
\* call before it has ended, by a return or by an exception.  The locals
\* tasks, graph, completed and failed are new; self.results and self.metrics
\* are the attributes __init__ set and the call before left.
ExecuteTasksAgain ==
    /\ pc \notin {"build", "loop", "gather"}
    /\ pc' = "build"
    /\ tasks' = <<>>
    /\ dg' = EmptyGraph
    /\ completed' = {}
    /\ failed' = {}
    /\ batch' = <<>>
    /\ slots' = <<>>
    /\ error' = NoError
    /\ UNCHANGED <<results, metrics, call, handler, recovery>>

\* The tasks of the lists handed to an instance that is used again.
RerunTasks == [id : TaskIds, type : RunTypes, priority : {NORMAL},
               dependencies : DepLists]

NextRuns ==
    \/ \E task \in RerunTasks : AddTask(task)
    \/ CheckCycles
    \/ Deadlock
    \/ Dispatch
    \/ \E i \in 1..MaxTasks : Start(i)
    \/ \E i \in 1..MaxTasks, outcome \in RunOutcomes : Finish(i, outcome)
    \/ Fold
    \/ Return
    \/ ExecuteTasksAgain

SpecRuns == Init /\ [][NextRuns]_vars

\* ---------------------------------------------- TaskExecutor on its own
\* One call of TaskExecutor.execute for any task of any type, awaited alone:
\* the coroutine is the only member of its gather.
ExecTasks == [id : TaskIds, type : TaskType, priority : TaskPriority,
              dependencies : {<<>>}]

InitExec ==
    /\ pc = "gather"
    /\ \E task \in ExecTasks :
          /\ tasks = <<task>>
          /\ batch = <<task>>
    /\ slots = <<[state |-> "scheduled", result |-> NoResult]>>
    /\ dg = EmptyGraph
    /\ completed = {}
    /\ failed = {}
    /\ results = <<>>
    /\ metrics = NewMetrics
    /\ error = NoError
    /\ call = NoCall
    /\ handler = DefaultHandler
    /\ recovery = NoRecovery

NextExec ==
    \/ Start(1)
    \/ \E outcome \in CollaboratorOutcomes : Finish(1, outcome)

SpecExec == InitExec /\ [][NextExec]_vars

\* -------------------------------------------- DependencyGraph on its own
\* A caller builds a graph with add_task and then asks it for the ready
\* tasks of a set completed, as tests/test_multi_step.py does.  Here every
\* dependency carries any of the four relation kinds.
KindLists(S) ==
    {[i \in 1..Cardinality(S) |->
        [task_id |-> SelectSeq(IdOrder, LAMBDA x : x \in S)[i], dep_type |-> k[i]]] :
     k \in [1..Cardinality(S) -> DependencyType]}
GraphTasks ==
    UNION {[id : TaskIds, type : {"navigate"}, priority : {NORMAL},
            dependencies : KindLists(S)] : S \in SUBSET TaskIds}

get_ready(completedArg) ==
    /\ pc = "build"
    /\ call = NoCall
    /\ call' = [op |-> "get_ready_tasks", arg |-> completedArg,
                ret |-> get_ready_tasks(dg, completedArg)]
    /\ pc' = "called"
    /\ UNCHANGED <<tasks, dg, completed, failed, results, metrics, batch, slots,
                   error, handler, recovery>>

NextGraph ==
    \/ \E task \in GraphTasks : AddTask(task)
    \/ \E completedArg \in SUBSET TaskIds : get_ready(completedArg)

SpecGraph == Init /\ [][NextGraph]_vars

\* ------------------------------------- DependencyGraph set up directly
\* detect_cycles and get_execution_order read self.tasks and self.graph only.
\* add_task cannot build a cycle longer than a self-loop, so a graph with
\* one is set up by writing the attributes of the instance: any registration
\* order of any subset of the ids and, for every id, any list of distinct
\* downstream ids.
Perms(S) == {s \in [1..Cardinality(S) -> S] : \A i, j \in DOMAIN s : i # j => s[i] # s[j]}
DistinctSeqs(S) == UNION {Perms(T) : T \in SUBSET S}

\* The instance with registration order keys and downstream lists adj; the
\* tasks declare the upstream ids the edges stand for.
DirectGraph(keys, adj) ==
    LET upstream(id) == {u \in Range(keys) : id \in Range(adj[u])} IN
    [keys |-> keys,
     tasks |-> [id \in Range(keys) |->
                  [id |-> id, type |-> "navigate", priority |-> NORMAL,
                   dependencies |-> DepList(upstream(id), "sequential")]],
     graph |-> adj,
     reverse_graph |-> [id \in Range(keys) |->
                          SelectSeq(IdOrder, LAMBDA u : u \in upstream(id))]]

DirectGraphs(ids) ==
    UNION {{DirectGraph(keys, adj) : adj \in [Range(keys) -> DistinctSeqs(Range(keys))]} :
           keys \in DistinctSeqs(ids)}

InitDirect ==
    /\ pc = "build"
    /\ tasks = <<>>
    /\ dg \in DirectGraphs(TaskIds)
    /\ completed = {}
    /\ failed = {}
    /\ results = <<>>
    /\ metrics = NewMetrics
    /\ batch = <<>>
    /\ slots = <<>>
    /\ error = NoError
    /\ call = NoCall
    /\ handler = DefaultHandler
    /\ recovery = NoRecovery

\* A call of dg.detect_cycles().
DetectCycles ==
    /\ pc = "build"
    /\ call = NoCall
    /\ call' = [op |-> "detect_cycles", arg |-> {}, ret |-> detect_cycles(dg)]
    /\ pc' = "called"
    /\ UNCHANGED <<tasks, dg, completed, failed, results, metrics, batch, slots,
                   error, handler, recovery>>

\* A call of dg.get_execution_order(): it returns the order or raises the
\* ValueError of line 77.
GetExecutionOrder ==
    /\ pc = "build"
    /\ call = NoCall
    /\ LET r == get_execution_order(dg) IN
       /\ call' = [op |-> "get_execution_order", arg |-> {}, ret |-> r.value]
       /\ error' = IF r.raised
                   THEN [exc |-> "ValueError", message |-> "Cyclic dependency detected",
                         detail |-> <<>>]
                   ELSE error
    /\ pc' = "called"
    /\ UNCHANGED <<tasks, dg, completed, failed, results, metrics, batch, slots,
                   handler, recovery>>

NextDirect ==
    \/ DetectCycles
    \/ GetExecutionOrder

SpecDirect == InitDirect /\ [][NextDirect]_vars

\* ------------------------------------------------ ErrorRecoveryHandler
\* The handlers a caller constructs and the retry counts its contexts carry.
Handlers == {ErrorRecoveryHandler(browser, max_retries) :
                browser \in BOOLEAN, max_retries \in 0..MaxRetries}
RetryCounts == 0..(MaxRetries + 1)

InitRecovery ==
    /\ pc = "build"
    /\ tasks = <<>>
    /\ dg = EmptyGraph
    /\ completed = {}
    /\ failed = {}
    /\ results = <<>>
    /\ metrics = NewMetrics
    /\ batch = <<>>
    /\ slots = <<>>
    /\ error = NoError
    /\ call = NoCall
    /\ handler \in Handlers
    /\ recovery = NoRecovery

\* A call of handler._classify_error(error), as the tests make it; the
\* kind returned is held in context.error_type.
ClassifyError(err) ==
    /\ recovery.pc = "idle"
    /\ recovery' = [NoRecovery EXCEPT !.pc = "returned", !.calls = 1,
                                      !.op = "_classify_error", !.error = err,
                                      !.context.error_type = classify_error(err)]
    /\ UNCHANGED <<handler, managerVars>>

\* A call of handler._find_recovery_strategy(error_type, context); the
\* strategy returned is held in context.recovery_strategy.
FindRecoveryStrategy(error_type, retry_count) ==
    /\ recovery.pc = "idle"
    /\ LET context == [ErrorContext(retry_count) EXCEPT !.error_type = error_type] IN
       recovery' = [NoRecovery EXCEPT
                       !.pc = "returned", !.calls = 1,
                       !.op = "_find_recovery_strategy",
                       !.context = [context EXCEPT !.recovery_strategy =
                                       find_recovery_strategy(handler, error_type, context)]]
    /\ UNCHANGED <<handler, managerVars>>

NextPlanner ==
    \/ \E err \in Errors : ClassifyError(err)
    \/ \E error_type \in ErrorType, retry_count \in RetryCounts :
          FindRecoveryStrategy(error_type, retry_count)

SpecPlanner == InitRecovery /\ [][NextPlanner]_vars

\* The errors handed to handle_error: every class, with the empty message
\* and with one that names a kind.
RecoveryErrors == [cls : ErrorClasses, message : {"", "Timeout"}]

\* handle_error from its entry to the await of step 5 or, when the strategy
\* is abort_task, to its return (lines 256-309).  The caller's context is
\* ErrorContext(retry_count=retry_count); handle_error writes message,
\* error_type and recovery_strategy into it.
HandleErrorCall(err, retry_count) ==
    /\ LET error_type == classify_error(err)
           context1 == [ErrorContext(retry_count) EXCEPT !.message = err.message,
                                                         !.error_type = error_type]
           strategy == find_recovery_strategy(handler, error_type, context1)
           context == [context1 EXCEPT !.recovery_strategy = strategy]
           entered == [recovery EXCEPT !.calls = @ + 1, !.op = "handle_error",
                                       !.error = err, !.context = context,
                                       !.effects = <<>>, !.outcome = BrowserReturns,
                                       !.ret = NoAction]
       IN  IF strategy = "abort_task"
           THEN /\ handler' = [handler EXCEPT !.metrics =
                                  record_recovery_failure(
                                      record_error(@, error_type, strategy))]
                /\ recovery' = [entered EXCEPT !.pc = "returned",
                                    !.ret = RecoveryAction("abort_task", FALSE,
                                               context.retry_count,
                                               "Unrecoverable error type")]
           ELSE IF context.retry_count >= handler.max_retries
           THEN /\ handler' = [handler EXCEPT !.metrics =
                                  record_recovery_failure(
                                      record_error(@, error_type, "abort_task"))]
                /\ recovery' = [entered EXCEPT !.pc = "returned",
                                    !.ret = RecoveryAction("abort_task", FALSE,
                                               context.retry_count,
                                               "Max retries exceeded ("
                                               \o ToString(handler.max_retries) \o ")")]
           ELSE /\ handler' = handler
                /\ recovery' = [entered EXCEPT !.pc = "recovering"]
    /\ UNCHANGED managerVars

\* A call of handle_error with any context, on a handler that is idle or has
\* returned from the call before.
HandleError(err, retry_count) ==
    /\ recovery.pc \in {"idle", "returned"}
    /\ recovery.calls < MaxCalls
    /\ HandleErrorCall(err, retry_count)

\* _execute_recovery ends, the browser call it awaited having done outcome,
\* and handle_error runs to its return (lines 311-339).  Nothing else inside
\* the try of handle_error raises, so the clause of lines 341-350 is not
\* entered.
RecoveryDone(outcome) ==
    /\ recovery.pc = "recovering"
    /\ (BrowserCall(recovery.context.recovery_strategy) = "" \/ ~handler.browser)
          => outcome = BrowserReturns
    /\ LET context == recovery.context
           strategy == context.recovery_strategy
           r == recover(handler, strategy, context, outcome)
           done == [recovery EXCEPT !.effects = r.effects, !.outcome = outcome]
       IN  IF r.raised
           THEN /\ handler' = handler
                /\ recovery' = [done EXCEPT !.pc = "raised"]
           ELSE IF r.failed
           THEN /\ handler' = [handler EXCEPT !.metrics = record_recovery_failure(@)]
                /\ recovery' = [done EXCEPT !.pc = "returned",
                                    !.ret = RecoveryAction("abort_task", FALSE,
                                               context.retry_count, r.reason)]
           ELSE /\ handler' = [handler EXCEPT !.metrics =
                                  record_recovery_success(
                                      record_error(@, context.error_type, strategy))]
                /\ recovery' = [done EXCEPT !.pc = "returned",
                                    !.ret = RecoveryAction(strategy, TRUE,
                                               next_retry_count(context),
                                               "Recovery executed successfully")]
    /\ UNCHANGED managerVars

NextRecovery ==
    \/ \E err \in RecoveryErrors, retry_count \in RetryCounts :
          HandleError(err, retry_count)
    \/ \E outcome \in BrowserOutcomes : RecoveryDone(outcome)

SpecRecovery == InitRecovery /\ [][NextRecovery]_vars

\* ------------------------------------------------- a caller that retries
\* The caller of handle_error that retries: its first context has retry count
\* 0, and while the action it got has can_recover it calls again, for the
\* next error, with the retry_count of that action.  It stops at an action
\* without can_recover.  The guard on calls is above the number of calls a
\* handler with max_retries <= MaxRetries lets through.
RetryLoopCall(err) ==
    /\ \/ recovery.pc = "idle"
       \/ recovery.pc = "returned" /\ recovery.ret.can_recover
    /\ recovery.calls < MaxRetries + 2
    /\ HandleErrorCall(err, IF recovery.pc = "idle" THEN 0
                            ELSE recovery.ret.retry_count)

NextRetryLoop ==
    \/ \E err \in RecoveryErrors : RetryLoopCall(err)
    \/ \E outcome \in BrowserOutcomes : RecoveryDone(outcome)

SpecRetryLoop == InitRecovery /\ [][NextRetryLoop]_vars

\* The caller goes on while it may and every recovery strategy that was
\* started ends (the browser call returns, raises or times out).
FairSpecRetryLoop == SpecRetryLoop /\ WF_vars(NextRetryLoop)


\* ------------------------------------------------------------ RetryStrategy
\* The retry counts get_wait_time is called with.
MaxWaitRetry == 1024
WaitRetryCounts == 0..MaxWaitRetry

\* The strategies a caller constructs: the defaults, those of the tests
\* (initial_delay 1.0, max_delay 10.0) and other bases.
RetryStrategies == {RetryStrategy(initial_delay, max_delay, exponential_base, jitter) :
                       initial_delay \in {100, 1000}, max_delay \in {10000, 30000},
                       exponential_base \in {1, 2, 4}, jitter \in BOOLEAN}
JitterSamples == {-1, 0, 1}

InitBackoff ==
    /\ pc = "build"
    /\ tasks = <<>>
    /\ dg = EmptyGraph
    /\ completed = {}
    /\ failed = {}
    /\ results = <<>>
    /\ metrics = NewMetrics
    /\ batch = <<>>
    /\ slots = <<>>
    /\ error = NoError
    /\ call = NoCall
    /\ handler \in {[DefaultHandler EXCEPT !.retry_strategy = s] : s \in RetryStrategies}
    /\ recovery = NoRecovery

\* A call of handler.retry_strategy.get_wait_time(retry_count); the argument
\* is held in context.retry_count.
GetWaitTime(retry_count, u) ==
    /\ recovery.pc = "idle"
    /\ ~handler.retry_strategy.jitter => u = 0
    /\ LET w == get_wait_time(handler.retry_strategy, retry_count, u) IN
       recovery' = [NoRecovery EXCEPT
                       !.pc = IF w.raised THEN "raised" ELSE "returned",
                       !.calls = 1, !.op = "get_wait_time",
                       !.context.retry_count = retry_count,
                       !.wait_time = w]
    /\ UNCHANGED <<handler, managerVars>>

NextBackoff ==
    \E retry_count \in WaitRetryCounts, u \in JitterSamples : GetWaitTime(retry_count, u)

SpecBackoff == InitBackoff /\ [][NextBackoff]_vars


\* ------------------------------------------------------ notions of the claims
Terminal == {"returned", "cycle_error", "deadlock_error",
             "missing_dependency_error", "executor_error"}

\* The edge upstream -> downstream of self.graph.
Edge(g, a, b) == a \in DOMAIN g.graph /\ b \in Range(g.graph[a])

\* The ids reachable from the set S over one or more edges.
RECURSIVE ReachableFrom(_, _, _)
ReachableFrom(g, S, seen) ==
    LET next == {b \in DOMAIN g.graph : \E a \in S : Edge(g, a, b)} \ seen IN
    IF next = {} THEN seen ELSE ReachableFrom(g, next, seen \cup next)

\* The directed graph has a cycle (self-loops included).
HasCycle(g) == \E n \in DOMAIN g.graph : n \in ReachableFrom(g, {n}, {})

\* path is a closed walk of the graph.
IsCyclePath(g, path) ==
    /\ Len(path) >= 2
    /\ path[1] = path[Len(path)]
    /\ \A k \in 1..(Len(path) - 1) : Edge(g, path[k], path[k + 1])

\* The upstream ids the registered task declares.
UpstreamIds(task) == {task.dependencies[k].task_id : k \in 1..Len(task.dependencies)}

\* Some registered task declares task_id as upstream.
HasDependent(g, task_id) ==
    \E d \in DOMAIN g.tasks : d # task_id /\ task_id \in UpstreamIds(g.tasks[d])

\* ------------------------------------------------------------------- claims

\* C1: when the graph built from the task list has a cycle, the run ends with
\* the cyclic-dependency error, which carries the cycles found, before any
\* task is dispatched: nothing is recorded and completed and failed are empty;
\* and no run gets past the check with a cyclic graph.
C1_CycleFailsBeforeDispatch ==
    /\ pc = "cycle_error" =>
          /\ HasCycle(dg)
          /\ error.exc = "ValueError"
          /\ error.detail = detect_cycles(dg)
          /\ error.detail # <<>>
          /\ \A k \in 1..Len(error.detail) : IsCyclePath(dg, error.detail[k])
          /\ results = <<>> /\ completed = {} /\ failed = {}
          /\ batch = <<>> /\ slots = <<>>
    /\ pc \in {"loop", "gather", "returned", "deadlock_error", "executor_error"} =>
          ~HasCycle(dg)

C1_Witness == pc = "cycle_error" /\ Len(tasks) = 2

\* C2: while a batch is out at the executor, every upstream id a member
\* declares is in completed and has a successful result recorded in this run.
C2_UpstreamCompletedAtDispatch ==
    pc = "gather" =>
        \A i \in 1..Len(batch) : \A u \in UpstreamIds(batch[i]) :
            /\ u \in completed
            /\ u \in DOMAIN results
            /\ results[u].success

C2_Witness ==
    /\ pc = "gather"
    /\ \E i \in 1..Len(batch) : UpstreamIds(batch[i]) # {}

\* C3 (as claimed): once a task with a dependent has failed it is not
\* dispatched again, the run does not return normally, and a deadlock error
\* lists exactly the ids that are neither completed nor failed.
C3_FailedUpstreamEndsInDeadlock ==
    \A f \in failed : HasDependent(dg, f) =>
        /\ pc = "gather" => \A i \in 1..Len(batch) : batch[i].id # f
        /\ pc # "returned"
        /\ pc = "deadlock_error" =>
              Range(error.detail) = DOMAIN dg.tasks \ (completed \cup failed)

\* C4 (as claimed): a task that is out at the executor has no result recorded
\* yet, so no entry of the results mapping is written a second time.
C4_ExecutedAtMostOnce ==
    pc = "gather" => \A i \in 1..Len(batch) : batch[i].id \notin DOMAIN results

\* C5 (as claimed): every run ends: it returns the results or raises.
C5_RunTerminates == <>(pc \in Terminal)

\* C6: execute never lets a failure out: whatever the task's type and
\* whatever the collaborator does, the call ends with a TaskResult for the
\* task; a failure gives success = FALSE, status "failed" and the message of
\* the failure, and a type without a dispatch branch gives the message that
\* the task type is unknown.
C6_ExecuteNeverRaises ==
    /\ pc # "executor_error"
    /\ \A i \in 1..Len(slots) :
          /\ slots[i].state \in {"scheduled", "awaiting", "done"}
          /\ slots[i].state = "awaiting" => batch[i].type \in Dispatchable
          /\ slots[i].state = "done" =>
                LET r == slots[i].result IN
                /\ r.task_id = batch[i].id
                /\ \/ r.success /\ r.status = "success" /\ r.error = ""
                      /\ batch[i].type \in Dispatchable
                   \/ ~r.success /\ r.status = "failed" /\ r.result = ""
                      /\ IF batch[i].type \in Dispatchable
                         THEN r.error \in ErrorMessages
                         ELSE r.error = "Unknown task type: " \o EnumStr(batch[i].type)

C6_Witness ==
    /\ slots[1].state = "done"
    /\ batch[1].type = "composite_task"
    /\ ~slots[1].result.success
    /\ slots[1].result.error = "Unknown task type: TaskType.COMPOSITE_TASK"

\* C7: while a member of the batch has not resolved, a step changes neither
\* completed, failed, results nor the metrics, keeps the batch as it is and
\* stays in the gather; so the fold and the next frontier come only after
\* every member has resolved.
C7_BatchBarrier ==
    [][(pc = "gather" /\ \E i \in 1..Len(batch) : slots[i].state # "done") =>
          /\ completed' = completed
          /\ failed' = failed
          /\ results' = results
          /\ metrics' = metrics
          /\ batch' = batch
          /\ pc' = "gather"
          /\ DOMAIN slots' = DOMAIN slots]_vars

C7_Witness ==
    /\ pc = "gather"
    /\ Len(batch) = 2
    /\ slots[2].state = "done"
    /\ slots[1].state = "awaiting"

\* C8: a member that has resolved keeps its result whatever its siblings do,
\* every member resolves by its own outcome, and the fold records for every
\* member the result it resolved with, adding the successful ones to
\* completed, also when a sibling failed.
C8_FailureIsolation ==
    [][pc = "gather" =>
          /\ pc' \in {"gather", "loop"}
          /\ pc' = "gather" =>
                /\ batch' = batch
                /\ DOMAIN slots' = DOMAIN slots
                /\ \A i \in 1..Len(batch) :
                      slots[i].state = "done" => slots'[i] = slots[i]
          /\ pc' = "loop" =>
                \A i \in 1..Len(batch) :
                    /\ slots[i].state = "done"
                    /\ batch[i].id \in DOMAIN results'
                    /\ results'[batch[i].id] = slots[i].result
                    /\ slots[i].result.success => batch[i].id \in completed'
                    /\ ~slots[i].result.success => batch[i].id \in failed']_vars

C8_Witness ==
    /\ pc = "loop"
    /\ \E a \in failed, b \in completed :
          /\ a # b
          /\ a \notin completed
          /\ UpstreamIds(dg.tasks[a]) = {} /\ UpstreamIds(dg.tasks[b]) = {}
          /\ ~results[a].success /\ results[b].success

\* C9: get_ready_tasks(completed) returns, once each, exactly the registered
\* tasks that are not in completed and whose declared upstream ids are all in
\* completed, whatever the relation kinds of the dependencies.
C9_ReadyIsExact ==
    call.op = "get_ready_tasks" =>
        /\ Range(call.ret) =
              {dg.tasks[id] : id \in
                  {x \in DOMAIN dg.tasks :
                      x \notin call.arg /\ UpstreamIds(dg.tasks[x]) \subseteq call.arg}}
        /\ Cardinality(Range(call.ret)) = Len(call.ret)

C9_Witness ==
    /\ call.op = "get_ready_tasks"
    /\ call.arg = {"A"}
    /\ Len(call.ret) = 1
    /\ call.ret[1].id = "B"
    /\ call.ret[1].dependencies = <<[task_id |-> "A", dep_type |-> "parallel"]>>

\* The position at which an id was first registered.
Registered(g, id) == Index(g.keys, id)

\* s is in descending priority, equal priorities in registration order.
PriorityOrdered(g, s) ==
    \A i, j \in 1..Len(s) : i < j =>
        \/ s[i].priority > s[j].priority
        \/ s[i].priority = s[j].priority
           /\ Registered(g, s[i].id) < Registered(g, s[j].id)

C11_ExecutionOrder ==
    call.op = "get_execution_order" =>
        IF HasCycle(dg)
        THEN error.exc = "ValueError" /\ call.ret = <<>>
        ELSE /\ error = NoError
             /\ Range(call.ret) = DOMAIN dg.tasks
             /\ Len(call.ret) = Cardinality(DOMAIN dg.tasks)
             /\ \A a, b \in DOMAIN dg.tasks :
                   Edge(dg, a, b) => Index(call.ret, a) < Index(call.ret, b)

C11_Witness ==
    /\ call.op = "get_execution_order"
    /\ dg.keys = <<"C", "B", "A">>
    /\ dg.graph = [A |-> <<"B">>, B |-> <<"C">>, C |-> <<>>]
    /\ call.ret = <<"A", "B", "C">>

\* The graph has exactly the edges of the sequence of pairs es.
HasExactlyEdges(g, es) ==
    \A a, b \in DOMAIN g.graph : Edge(g, a, b) <=> <<a, b>> \in es

\* C12: detect_cycles returns the empty list exactly when the graph has no
\* cycle, a self-loop being a cycle; every path it returns starts and ends
\* with the same id and follows edges of the graph; and for the graph with
\* the edges A -> B -> C -> A one returned path contains A, B and C.
C12_DetectCycles ==
    call.op = "detect_cycles" =>
        /\ call.ret = <<>> <=> ~HasCycle(dg)
        /\ \A k \in 1..Len(call.ret) : IsCyclePath(dg, call.ret[k])
        /\ (/\ DOMAIN dg.graph = {"A", "B", "C"}
            /\ HasExactlyEdges(dg, {<<"A", "B">>, <<"B", "C">>, <<"C", "A">>}))
           => \E k \in 1..Len(call.ret) : {"A", "B", "C"} \subseteq Range(call.ret[k])

C12_Witness ==
    /\ call.op = "detect_cycles"
    /\ dg.keys = <<"B", "A", "C">>
    /\ HasExactlyEdges(dg, {<<"A", "B">>, <<"B", "C">>, <<"C", "A">>})
    /\ call.ret = <<<<"B", "C", "A", "B">>>>

\* C13 (as claimed): an add_task whose task declares an upstream id that no
\* earlier add_task registered, its own id included, raises the
\* missing-dependency error.
C13_AddFailsOnUnregisteredUpstream ==
    [][(pc = "build" /\ tasks' # tasks) =>
          LET task == tasks'[Len(tasks')] IN
          (UpstreamIds(task) \ DOMAIN dg.tasks # {}) =>
              /\ pc' = "missing_dependency_error"
              /\ error'.exc = "ValueError"]_vars

\* The run has returned and no execution of it failed.
ReturnedAllSucceeded == pc = "returned" /\ failed = {}

\* One result per task of the list, all successful, and the counts of the
\* metrics agree with the length of the list.
OneSuccessPerTask ==
    /\ DOMAIN results = {tasks[i].id : i \in 1..Len(tasks)}
    /\ Cardinality(DOMAIN results) = Len(tasks)
    /\ \A id \in DOMAIN results : results[id].success /\ results[id].task_id = id
    /\ metrics.total_tasks = Len(tasks)
    /\ metrics.completed_tasks = Len(tasks)
    /\ metrics.failed_tasks = 0

\* success_rate == 1.0.
SuccessRateIsOne == metrics.success_rate.num = metrics.success_rate.den

AllOnAllSoFar ==
    /\ tasks # <<>>
    /\ \E S \in SUBSET TaskIds :
          /\ Cardinality(S) >= 2
          /\ \A i \in 1..Len(tasks) :
                tasks[i].id \in S /\ UpstreamIds(tasks[i]) = S \ {tasks[i].id}
          /\ \A i, j \in 1..Len(tasks) : i # j => tasks[i].id # tasks[j].id

NoSuccessfulResult == \A id \in DOMAIN results : ~results[id].success

\* C15 (as claimed): a run over a task set in which every task depends on
\* every other ends with the deadlock error or the cycle error, with no
\* successful result.
C15_AllOnAllDeadlockOrCycle ==
    AllOnAllSoFar =>
        /\ pc \in Terminal => pc \in {"deadlock_error", "cycle_error"}
        /\ NoSuccessfulResult

\* C15 (amended): such a run ends while the graph is built: add_task of the
\* first task raises the missing-dependency ValueError for an upstream id the
\* task declares; no task has been dispatched and there is no result.
C15_AllOnAllMissingDependency ==
    AllOnAllSoFar =>
        /\ pc = "missing_dependency_error"
        /\ Len(tasks) = 1
        /\ error.exc = "ValueError"
        /\ error.detail = <<tasks[1].dependencies[1].task_id>>
        /\ results = <<>> /\ completed = {} /\ failed = {}
        /\ batch = <<>> /\ slots = <<>>

C15_Witness ==
    /\ AllOnAllSoFar
    /\ pc = "missing_dependency_error"
    /\ tasks[1].id = "B"
    /\ UpstreamIds(tasks[1]) = {"A", "C"}
    /\ error.detail = <<"A">>

\* What a raised condition leaves behind: the build errors come before any
\* dispatch, the deadlock error lists ids that are neither completed nor
\* failed and leaves self.results holding the results folded so far.
RaisedConditionsWellFormed ==
    /\ pc = "cycle_error" =>
          /\ error.exc = "ValueError"
          /\ error.message = "Cyclic dependencies detected"
          /\ results = <<>> /\ batch = <<>>
    /\ pc = "deadlock_error" =>
          /\ error.exc = "RuntimeError"
          /\ error.message = "Task deadlock"
          /\ Range(error.detail) \cap (completed \cup failed) = {}
          /\ DOMAIN results = completed \cup failed
    /\ pc = "returned" => error = NoError

\* C16 (as claimed): a call of execute_tasks that has ended has returned the
\* results mapping or raised one of two conditions, the cyclic-dependency
\* error before any task executes or the deadlock error with the partial
\* results in self.results.
C16_ExactlyTwoConditions ==
    /\ pc \notin {"build", "loop", "gather"} =>
          pc \in {"returned", "cycle_error", "deadlock_error"}
    /\ RaisedConditionsWellFormed

\* C16 (amended): there is a third condition, the missing-dependency
\* ValueError that add_task raises while the graph is built, before any task
\* executes; a call that has ended has returned or raised one of the three.
C16_ExactlyThreeConditions ==
    /\ pc \notin {"build", "loop", "gather"} =>
          pc \in {"returned", "cycle_error", "deadlock_error",
                  "missing_dependency_error"}
    /\ RaisedConditionsWellFormed
    /\ pc = "missing_dependency_error" =>
          /\ error.exc = "ValueError"
          /\ error.message = "Dependency task not found"
          /\ error.detail[1] \in UpstreamIds(tasks[Len(tasks)])
          /\ results = <<>> /\ batch = <<>>

C16_Witness ==
    /\ pc = "deadlock_error"
    /\ results # <<>>
    /\ \E id \in DOMAIN results : results[id].success

\* The kind that stands for an exception class.
KindOfClass(cls) ==
    CASE cls = "ElementNotFoundError" -> "element_not_found"
      [] cls = "TimeoutError" -> "timeout"
      [] cls = "NavigationError" -> "navigation_failed"
      [] cls = "APIError" -> "api_error"
      [] cls = "BrowserError" -> "browser_error"

\* C17 (as claimed): an error of one of the five classes is classified as
\* the kind of its class whatever its message says.
C17_TypeWinsOverMessage ==
    (recovery.op = "_classify_error" /\ recovery.error.cls # "Exception") =>
        recovery.context.error_type = KindOfClass(recovery.error.cls)

\* The decision table of the strategies, by kind and retry count.
DecisionTable(kind, n) ==
    CASE kind = "element_not_found" ->
            (CASE n = 0 -> "scroll_and_retry" [] n = 1 -> "wait_and_retry"
               [] n >= 2 -> "skip_action")
      [] kind = "timeout" ->
            (CASE n \in {0, 1} -> "wait_and_retry" [] n >= 2 -> "skip_action")
      [] kind = "api_error" -> "wait_and_retry"
      [] kind = "navigation_failed" -> "navigate_back"
      [] kind \in {"browser_error", "unknown"} -> "retry_same"
      [] kind = "invalid_action" -> "skip_action"

\* C18: for every kind and every retry count below the handler's
\* max_retries, _find_recovery_strategy returns the strategy of the decision
\* table.
C18_StrategyTable ==
    (/\ recovery.op = "_find_recovery_strategy"
     /\ recovery.context.retry_count < handler.max_retries)
    => recovery.context.recovery_strategy =
          DecisionTable(recovery.context.error_type, recovery.context.retry_count)

C18_Witness ==
    /\ recovery.op = "_find_recovery_strategy"
    /\ recovery.context.error_type = "timeout"
    /\ recovery.context.retry_count = 1
    /\ handler.max_retries = DefaultMaxRetries
    /\ recovery.context.recovery_strategy = "wait_and_retry"

\* C19: a call of handle_error whose context carries a retry count equal to
\* or above max_retries returns at once with strategy abort_task and
\* can_recover = FALSE, whatever the error: the strategy written into the
\* context is abort_task, none of the table, the retry count is returned as
\* it came, and no scroll, go_back or sleep is made.
C19_AbortAtMaxRetries ==
    (/\ recovery.op = "handle_error"
     /\ recovery.context.retry_count >= handler.max_retries)
    => /\ recovery.pc = "returned"
       /\ recovery.ret.strategy = "abort_task"
       /\ recovery.ret.can_recover = FALSE
       /\ recovery.ret.retry_count = recovery.context.retry_count
       /\ recovery.context.recovery_strategy = "abort_task"
       /\ recovery.effects = <<>>

C19_Witness ==
    /\ recovery.op = "handle_error"
    /\ handler.browser
    /\ handler.max_retries = DefaultMaxRetries
    /\ recovery.context.retry_count = DefaultMaxRetries
    /\ recovery.error.cls = "NavigationError"
    /\ recovery.ret.strategy = "abort_task"
    /\ handler.metrics.failed_recoveries = 1

\* C20: handle_error never raises: a call is under way or has returned a
\* RecoveryAction, whatever the error, the context and the browser do; and
\* when the browser call of the chosen strategy raised or timed out, the
\* action returned has can_recover = FALSE, strategy abort_task and a reason
\* that is not empty.
C20_HandleErrorNeverRaises ==
    /\ recovery.pc \in {"idle", "recovering", "returned"}
    /\ (recovery.op = "handle_error" /\ recovery.pc = "returned") =>
          /\ recovery.ret.strategy \in RecoveryStrategy
          /\ recovery.ret.reason # ""
          /\ recovery.outcome.kind \in {"raises", "timeout"} =>
                /\ recovery.ret.can_recover = FALSE
                /\ recovery.ret.strategy = "abort_task"

C20_Witness ==
    /\ recovery.op = "handle_error"
    /\ recovery.pc = "returned"
    /\ recovery.outcome = BrowserTimesOut
    /\ recovery.effects = <<"go_back">>
    /\ recovery.ret.can_recover = FALSE
    /\ recovery.ret.reason = "Recovery execution failed: Recovery timeout"


\* C21: a call of handle_error that came with retry count r returns r + 1
\* when the action has can_recover = TRUE; when it has can_recover = FALSE
\* (abort, or the strategy's execution failed) it returns r and
\* failed_recoveries has grown by exactly one over the call.  The count does
\* not move while the call is under way.
C21_RetryCountAndFailureCount ==
    [][/\ (recovery'.op = "handle_error" /\ recovery'.pc = "recovering") =>
             handler'.metrics.failed_recoveries = handler.metrics.failed_recoveries
       /\ (recovery'.op = "handle_error" /\ recovery'.pc = "returned") =>
             LET r == recovery'.context.retry_count IN
             IF recovery'.ret.can_recover
             THEN recovery'.ret.retry_count = r + 1
             ELSE /\ recovery'.ret.retry_count = r
                  /\ handler'.metrics.failed_recoveries =
                        handler.metrics.failed_recoveries + 1]_vars

C21_Witness ==
    /\ recovery.op = "handle_error"
    /\ recovery.pc = "returned"
    /\ recovery.calls = 2
    /\ recovery.outcome.kind = "raises"
    /\ recovery.context.retry_count = 1
    /\ recovery.ret.can_recover = FALSE
    /\ recovery.ret.retry_count = 1
    /\ handler.metrics.failed_recoveries = 1
    /\ handler.metrics.recovery_success_count = 1


\* initial_delay * exponential_base ^ retry_count capped at max_delay, as a
\* number: from SaturationExp on the power is above every max_delay.
ClampedPower(s, n) ==
    IF Log2(s.exponential_base) * n >= SaturationExp
    THEN s.max_delay
    ELSE Min(s.initial_delay * (s.exponential_base ^ n), s.max_delay)

\* C22: with jitter disabled, get_wait_time(n) returns
\* min(initial_delay * base^n, max_delay) for every retry count n >= 0, so a
\* value between 0 and max_delay.
C22_WaitTimeIsClampedPower ==
    (recovery.op = "get_wait_time" /\ ~handler.retry_strategy.jitter) =>
        /\ recovery.pc = "returned"
        /\ ~recovery.wait_time.raised
        /\ recovery.wait_time.value =
              ClampedPower(handler.retry_strategy, recovery.context.retry_count)
        /\ recovery.wait_time.value >= 0
        /\ recovery.wait_time.value <= handler.retry_strategy.max_delay

\* C22, the values of the tests: initial_delay 1.0, base 2.0, max_delay 10.0
\* give 1.0, 2.0, 4.0 for n = 0, 1, 2 and 10.0 for n = 10.
C22_TestValues ==
    LET s == handler.retry_strategy
        n == recovery.context.retry_count
    IN  (/\ recovery.op = "get_wait_time"
         /\ s = RetryStrategy(1000, 10000, 2, FALSE)
         /\ n \in {0, 1, 2, 10}) =>
            recovery.wait_time =
                [raised |-> FALSE, exc |-> "",
                 value |-> CASE n = 0 -> 1000 [] n = 1 -> 2000
                             [] n = 2 -> 4000 [] n = 10 -> 10000]


\* The submitted task list has pairwise distinct ids.
DistinctIds == \A i, j \in 1..Len(tasks) : tasks[i].id = tasks[j].id => i = j

\* The ids of the submitted tasks, and those submitted with critical priority.
SubmittedIds == {tasks[i].id : i \in 1..Len(tasks)}
CriticalIds == {tasks[i].id : i \in {j \in 1..Len(tasks) : tasks[j].priority = CRITICAL}}

\* C23: at every point of a run the critical-failure counter is the number of
\* critical-priority task ids in failed; the same task is never counted twice.
C23_CriticalFailuresCountFailedIds ==
    (pc \in {"loop", "gather", "returned"} /\ DistinctIds) =>
        metrics.critical_failures = Cardinality(failed \cap CriticalIds)

\* C24: in every state of a run completed and failed are disjoint and are
\* subsets of the submitted ids.
C24_CompletedFailedDisjoint ==
    /\ completed \cap failed = {}
    /\ completed \cup failed \subseteq SubmittedIds

\* C25: when execute_tasks returns normally the returned mapping has an entry
\* for every id of the submitted list.
C25_ReturnCoversEveryTask ==
    pc = "returned" => SubmittedIds \subseteq DOMAIN results

\* C26: for a task list with pairwise distinct ids that passed the graph
\* construction and the cycle check, every loop iteration finds a task that is
\* not completed and has all its upstream ids completed, the ready list is not
\* empty, and the deadlock error is never raised.
C26_ReadyFrontierNonEmpty ==
    DistinctIds =>
        /\ pc # "deadlock_error"
        /\ (pc = "loop" /\ Unfinished) =>
              /\ get_ready_tasks(dg, completed) # <<>>
              /\ \E i \in 1..Len(tasks) :
                    /\ tasks[i].id \notin completed
                    /\ \A k \in 1..Len(tasks[i].dependencies) :
                          tasks[i].dependencies[k].task_id \in completed

C26_Witness ==
    /\ pc = "loop"
    /\ Unfinished
    /\ DistinctIds
    /\ Len(tasks) = 2
    /\ tasks[2].dependencies # <<>>
    /\ failed # {}
    /\ completed = {}


\* C27: after any sequence of runs on one manager the metrics of the run
\* that has just returned satisfy completed_tasks + failed_tasks <=
\* total_tasks and 0 <= success_rate <= 1.
C27_MetricsBoundedAcrossRuns ==
    pc = "returned" =>
        /\ metrics.completed_tasks + metrics.failed_tasks <= metrics.total_tasks
        /\ metrics.success_rate.num >= 0
        /\ metrics.success_rate.num <= metrics.success_rate.den


\* The sum of the counts of a breakdown.
RECURSIVE SumOver(_, _)
SumOver(f, keys) ==
    IF keys = {} THEN 0
    ELSE LET k == CHOOSE x \in keys : TRUE IN f[k] + SumOver(f, keys \ {k})

\* The call of handle_error that has just returned chose a strategy other
\* than abort_task and the execution of that strategy failed.
ExecutionFailed ==
    /\ recovery.op = "handle_error"
    /\ recovery.pc = "returned"
    /\ recovery.context.recovery_strategy # "abort_task"
    /\ ~recovery.ret.can_recover

\* C28: after any sequence of handle_error calls total_errors is the number
\* of calls made and the sum of the breakdown by kind.
C28_TotalErrorsCountsCalls ==
    (recovery.op = "handle_error" /\ recovery.pc = "returned") =>
        /\ handler.metrics.total_errors = recovery.calls
        /\ handler.metrics.total_errors =
              SumOver(handler.metrics.errors_by_type,
                      DOMAIN handler.metrics.errors_by_type)

\* C29: an execution of a strategy that failed is counted as a recovery
\* attempt, so after it recovery_attempts is above recovery_success_count and
\* the recovery success rate is below 1.0.
C29_FailedExecutionIsAnAttempt ==
    ExecutionFailed =>
        /\ handler.metrics.recovery_attempts > handler.metrics.recovery_success_count
        /\ recovery_success_rate(handler.metrics).num <
              recovery_success_rate(handler.metrics).den


\* C30: a caller that starts with retry count 0 and passes each returned
\* retry_count into its next call gets can_recover = TRUE at most max_retries
\* times, and in the end gets abort_task with can_recover = FALSE, whatever
\* the errors and the outcomes of the browser calls are.
C30_RetriesBounded ==
    /\ [](handler.metrics.recovery_success_count <= handler.max_retries)
    /\ [](recovery.ret.can_recover =>
             recovery.ret.retry_count = handler.metrics.recovery_success_count)
    /\ <>(/\ recovery.op = "handle_error"
          /\ recovery.pc = "returned"
          /\ recovery.ret.strategy = "abort_task"
          /\ ~recovery.ret.can_recover)

C30_Witness ==
    /\ recovery.op = "handle_error"
    /\ recovery.pc = "returned"
    /\ handler.max_retries = DefaultMaxRetries
    /\ recovery.calls = DefaultMaxRetries + 1
    /\ handler.metrics.recovery_success_count = DefaultMaxRetries
    /\ recovery.ret.strategy = "abort_task"
    /\ ~recovery.ret.can_recover

====
